---- MODULE Spec2Model ----
(***************************************************************************)
(* A model of the media-convert orchestrators.                             *)
(*                                                                         *)
(*   media_convert_4.py  two-pass AV1 orchestrator with the SQLite         *)
(*                       tracking store (variant "v4")                     *)
(*   media_convert_3.py  single-pass orchestrator with the exit-status     *)
(*                       range check (variant "v3")                        *)
(*   media_convert_2.py  its track loop only (variant "v2")                *)
(*                                                                         *)
(* A path is the sequence of the dot-separated parts of its name, so that  *)
(* to_target_naming, to_mp4_naming, the ".old" backup suffix and the       *)
(* subtitle names are computed as the code computes them.  The file system *)
(* maps the paths that exist to a file (content, size, mtime, atime); the  *)
(* tracking store is a set of rows.                                        *)
(***************************************************************************)
EXTENDS Integers, Sequences, FiniteSets, TLC

VARIABLES
    variant,        \* which script runs: "v4", "v3" or "v2"
    DELETE,         \* behaviour flag DELETE
    JUST_CHECK,     \* behaviour flag JUST_CHECK
    ssh_configured, \* ssh_enabled as written in the script (media_convert_3)
    fs,             \* files of the watched folders: path -> file
    temp,           \* the temp output file: <<>> or <<file>>
    db,             \* table files: a set of rows
    now,            \* the clock (time.time(), st_mtime of new files)
    run,            \* number of runs started
    envn,           \* number of changes made to the library between runs
    faults,         \* number of failures injected so far (encoder, file system)
    pc,             \* position of the running script
    paths,          \* candidate list of this run
    idx,            \* index in paths of the file in hand (1-based)
    sig,            \* (size, mtime) read by file_signature for the file in hand
    r1,             \* exit status of pass 1 (after any fallback)
    r2,             \* exit status of pass 2 / retval of the single-pass encode
    sw,             \* sw_tonemap flag the commands p1, p2 in hand were built with
    backup,         \* in_path_original
    removed,        \* TRUE iff os.remove(in_path_original) succeeded
    processed, skipped, failed,
    exitcode,       \* <<>> while running, <<n>> once the process has exited
    calls,          \* encoder invocations made for the file in hand, in order
    orig,           \* the file found at in_path when the iteration began
    ranFor,         \* paths an encoder was started for in this run
    skippedNow,     \* paths skipped by the store short-circuit in this run
    fatalAt,        \* 0, or the index of the first file an encoder returned a
                    \* status outside the expected range for
    last,           \* how the iteration for paths[idx-1] ended
    p1, p2,         \* the pass-1 and pass-2 commands in hand (media_convert_4)
    probe,          \* what ffprobe prints for the file in hand, by entry
    \* media_convert_3 only
    ssh_enabled,    \* the global ssh_enabled of the running script
    stdout_bound,   \* TRUE once exec_command has returned in this run
    rfs,            \* files of ssh_folder on the remote host: name -> content
    commands,       \* the list commands (JUST_CHECK)
    cur_file,       \* cur_file
    video_cmd, audio_cmd, need_remote, redo_audio,
    retval,         \* <<>> while unbound, else <<status of the last process>>
    subq,           \* subtitle names of the Text tracks still to extract
    media_info      \* media_info.tracks of the file in hand (media_convert_2 too)

vars == <<variant, DELETE, JUST_CHECK, ssh_configured, ssh_enabled, stdout_bound,
          rfs, commands, cur_file, video_cmd, audio_cmd, need_remote,
          redo_audio, retval, subq, media_info, fs, temp, db, now, run, envn, faults,
          pc, paths, idx, sig, r1, r2, sw, backup, removed, processed, skipped, failed,
          exitcode, calls, orig, ranFor, skippedNow, fatalAt, last, p1, p2,
          probe>>

-----------------------------------------------------------------------------
(* Bounds of the model *)

MaxRuns == 2
MaxEnv == 1
MaxFaults == 2
MaxTracks == 3

(* Program constants *)

FATAL_LOW == -1
FATAL_HIGH == 10

EXT4 == "mkv"
EXT3 == "mp4"
convertible_extensions == {"rmvb", "mkv", "avi", "mov", "wmv", "m4v", "mp4"}
valid_extensions == {"rmvb", "mkv", "avi", "mov", "wmv"}

MAX_BITRATE == 7000000
MAX_BITRATE2 == 5000000
MAX_HEIGHT == 1080
MAX_WIDTH == 1920
VIDEO_CODEC == "AVC"
VIDEO_PROFILE == "Main"
MAX_CHANNELS == 2
AUDIO_CODEC == "AAC"

\* seconds added to st_mtime of a converted file
MTIME_SHIFT == 157680000

(* Exit statuses an encoder process is observed with.  media_convert_4 tells
   zero from non-zero only; media_convert_3 also compares with both limits. *)
ExitCodes == {-2, -1, 0, 1}
ExitCodes3 == ExitCodes \cup {10, 11}

(* The library the runs start from, and the sizes a file may have *)
Library == {<<"a", "avi">>, <<"a", "mkv">>}
Library3 == {<<"a", "avi">>, <<"a", "mp4">>}
Sizes == {1, 2}

-----------------------------------------------------------------------------
(* Files *)

File(c, s, m) == [content |-> c, size |-> s, mtime |-> m, atime |-> m]

\* content of a source file as first seen: its own name, never encoded
Raw(p) == [of |-> p, enc |-> 0, whole |-> TRUE]
\* content the encoder writes for input content c on exit status 0
Encoded(c) == [of |-> c.of, enc |-> c.enc + 1, whole |-> TRUE]
\* content an encoder that failed may leave behind
Partial(c) == [of |-> c.of, enc |-> c.enc + 1, whole |-> FALSE]

isfile(p) == p \in DOMAIN fs

Remove(f, p) == [q \in (DOMAIN f) \ {p} |-> f[q]]
Put(f, p, x) == [q \in (DOMAIN f) \cup {p} |-> IF q = p THEN x ELSE f[q]]

normalize_path(p) == p

to_target_naming(filename) == [filename EXCEPT ![Len(filename)] = EXT4]

file_signature(p) == <<fs[p].size, fs[p].mtime>>

-----------------------------------------------------------------------------
(* Database *)

Row(p, s, m, st, n, lc) ==
    [path |-> p, size |-> s, mtime |-> m, sha256 |-> "None",
     last_checked |-> lc, status |-> st, note |-> n]

Note(kind, code) == [kind |-> kind, code |-> code]

\* SELECT ... FROM files WHERE path=? ; fetchone(): <<>> or <<row>>
fetchone(conn, p) ==
    IF \E row \in conn : row.path = p
    THEN <<CHOOSE row \in conn : row.path = p>>
    ELSE <<>>

\* db_lookup without the comparison of the stored mtime
db_lookup_noMtime(conn, p, size, mtime) ==
    LET row == fetchone(conn, p)
    IN  IF row # <<>> /\ row[1].size = size /\ row[1].status = "ok"
        THEN row
        ELSE <<>>

\* db_lookup without the comparison of the stored size
db_lookup_noSize(conn, p, size, mtime) ==
    LET row == fetchone(conn, p)
    IN  IF row # <<>> /\ row[1].mtime = mtime /\ row[1].status = "ok"
        THEN row
        ELSE <<>>

\* db_lookup comparing size and mtime with each other's column
db_lookup_swapped(conn, p, size, mtime) ==
    LET row == fetchone(conn, p)
    IN  IF row # <<>> /\ row[1].mtime = size /\ row[1].size = mtime
           /\ row[1].status = "ok"
        THEN row
        ELSE <<>>

db_lookup(conn, p, size, mtime) ==
    LET row == fetchone(conn, p)
    IN  IF row # <<>> /\ row[1].size = size /\ row[1].mtime = mtime
           /\ row[1].status = "ok"
        THEN row
        ELSE <<>>

\* db_upsert inserting a row without the ON CONFLICT(path) clause
db_upsert_insert(conn, p, size, mtime, status, note, t) ==
    conn \cup {Row(p, size, mtime, status, note, t)}

\* INSERT ... ON CONFLICT(path) DO UPDATE SET size, mtime, last_checked, status, note
db_upsert(conn, p, size, mtime, status, note, t) ==
    IF \E row \in conn : row.path = p
    THEN {IF row.path = p
          THEN [row EXCEPT !.size = size, !.mtime = mtime, !.last_checked = t,
                           !.status = status, !.note = note]
          ELSE row : row \in conn}
    ELSE conn \cup {Row(p, size, mtime, status, note, t)}

-----------------------------------------------------------------------------
(* Names *)

\* in_path + ".old", then + ".old" while the name is taken (lines 357-359)
RECURSIVE FirstFree(_, _)
FirstFree(f, p) == IF p \in DOMAIN f THEN FirstFree(f, Append(p, "old")) ELSE p

BackupName(f, p) == FirstFree(f, Append(p, "old"))

\* fname.split('.')[-1].lower() in convertible_extensions (lines 296-298)
IsCandidate(p) == p[Len(p)] \in convertible_extensions

Perms(S) == {s \in [1..Cardinality(S) -> S] : \A i, j \in 1..Cardinality(S) : s[i] = s[j] => i = j}

in_path == paths[idx]
out_path == to_target_naming(in_path)

\* IsFatal with both limits taken as fatal
IsFatalInclusive(rv) == rv <= FATAL_LOW \/ rv >= FATAL_HIGH

\* exit-status range check of media_convert_3 (retval < -1 or retval > 10)
IsFatal(rv) == rv < FATAL_LOW \/ rv > FATAL_HIGH

Call(pass, swflag, rc, diag) == [pass |-> pass, sw |-> swflag, rc |-> rc, diag |-> diag]


-----------------------------------------------------------------------------
(* media_convert_4.py, the FFmpeg command builder *)

temp_file == <<"temp", EXT4>>

\* s contains sub (the operator "in" of two str)
Contains(s, sub) ==
    \E i \in 1..(Len(s) - Len(sub) + 1) : SubSeq(s, i, i + Len(sub) - 1) = sub

IsSpace(c) == c \in {" ", "\n", "\t", "\r"}

LowerChar(c) ==
    LET upper == "ABCDEFGHIJKLMNOPQRSTUVWXYZ"
        lower == "abcdefghijklmnopqrstuvwxyz"
    IN  IF \E i \in 1..26 : SubSeq(upper, i, i) = c
        THEN LET i == CHOOSE j \in 1..26 : SubSeq(upper, j, j) = c
             IN  SubSeq(lower, i, i)
        ELSE c

\* str.lower
RECURSIVE lower(_)
lower(s) ==
    IF Len(s) = 0 THEN s
    ELSE LowerChar(SubSeq(s, 1, 1)) \o lower(SubSeq(s, 2, Len(s)))

\* str.strip
RECURSIVE strip(_)
strip(s) ==
    IF Len(s) = 0 THEN s
    ELSE IF IsSpace(SubSeq(s, 1, 1)) THEN strip(SubSeq(s, 2, Len(s)))
    ELSE IF IsSpace(SubSeq(s, Len(s), Len(s))) THEN strip(SubSeq(s, 1, Len(s) - 1))
    ELSE s

\* the stdout of ffprobe for the first video stream, by entry
Probe(ct, cp) == [color_transfer |-> ct, color_primaries |-> cp]

NoProbe == Probe("", "")
SdrProbe == Probe("bt709\n", "bt709\n")
HdrProbe == Probe("smpte2084\n", "bt2020\n")

\* what ffprobe may print for an entry: nothing, one value, or the value
\* once per program of the container
Transfers == {"", "bt709\n", "smpte170m\n", "unknown\n", "smpte2084\n",
              "arib-std-b67\n", "smpte2084\nsmpte2084\n", "bt2020-10\n"}
Primaries == {"", "bt709\n", "smpte170m\n", "unknown\n", "bt2020\n",
              "bt2020\nbt2020\n"}

\* lines 203-211, on the output pr of ffprobe for the input
probe_field(pr, entry) == lower(strip(pr[entry]))

\* is_hdr looking at the color transfer only
is_hdr_transfer(pr) ==
    LET ct == probe_field(pr, "color_transfer")
    IN  Contains(ct, "smpte2084") \/ Contains(ct, "arib-std-b67")

\* lines 213-220
is_hdr(pr) ==
    LET ct == probe_field(pr, "color_transfer")
        cp == probe_field(pr, "color_primaries")
    IN  \/ Contains(ct, "smpte2084")
        \/ Contains(ct, "arib-std-b67")
        \/ Contains(cp, "bt2020")

\* the stages of the filter chain (lines 229-241)
scale == "scale_vaapi"
hwmap == "hwmap"
tm_hw == <<"tonemap_vaapi">>
tm_sw == <<"hwdownload", "format=p010le", "zscale", "format=gbrp16le",
           "tonemap", "format=p010le", "hwupload", "format=vaapi">>

NoCmd == [pass |-> 0, input |-> <<>>, vf |-> <<>>, maps |-> {},
          audio |-> "none", subs |-> "none", output |-> <<>>]

\* build_two_pass_cmds putting the tonemap stage after the scale stage
build_tonemap_last(pr, input_path, output_path, sw_tonemap) ==
    LET tm == IF sw_tonemap THEN tm_sw ELSE tm_hw
        vf == IF is_hdr(pr) THEN <<scale>> \o tm \o <<hwmap>> ELSE <<scale, hwmap>>
    IN  <<[pass |-> 1, input |-> input_path, vf |-> vf, maps |-> {},
           audio |-> "an", subs |-> "none", output |-> <<"dev", "null">>],
          [pass |-> 2, input |-> input_path, vf |-> vf,
           maps |-> {"0", "chapters 0", "metadata 0"},
           audio |-> "copy", subs |-> "copy", output |-> output_path]>>

\* lines 226-267; pr is what ffprobe prints for input_path
build_two_pass_cmds(pr, input_path, output_path, sw_tonemap) ==
    LET tm == IF sw_tonemap THEN tm_sw ELSE tm_hw
        vf == IF is_hdr(pr) THEN tm \o <<scale, hwmap>> ELSE <<scale, hwmap>>
    IN  <<[pass |-> 1, input |-> input_path, vf |-> vf, maps |-> {},
           audio |-> "an", subs |-> "none", output |-> <<"dev", "null">>],
          [pass |-> 2, input |-> input_path, vf |-> vf,
           maps |-> {"0", "chapters 0", "metadata 0"},
           audio |-> "copy", subs |-> "copy", output |-> output_path]>>

-----------------------------------------------------------------------------
(* Initial states *)

\* values of the per-file locals before the loop body assigns them
NoLocals ==
    /\ sig = <<0, 0>> /\ r1 = 0 /\ r2 = 0 /\ sw = FALSE /\ backup = <<>>
    /\ removed = FALSE
    /\ calls = <<>> /\ orig = <<>>
    /\ p1 = NoCmd /\ p2 = NoCmd /\ probe = NoProbe

NoRun ==
    /\ paths = <<>> /\ idx = 1
    /\ processed = 0 /\ skipped = 0 /\ failed = 0
    /\ exitcode = <<>>
    /\ ranFor = {} /\ skippedNow = {} /\ fatalAt = 0 /\ last = "none"

\* values of the globals of media_convert_3 before the script assigns them
NoGlobals3 ==
    /\ ssh_enabled = ssh_configured /\ stdout_bound = FALSE
    /\ commands = <<>> /\ cur_file = <<>>
    /\ video_cmd = "copy" /\ audio_cmd = "copy"
    /\ need_remote = FALSE /\ redo_audio = FALSE
    /\ retval = <<>> /\ subq = <<>> /\ media_info = <<>>

InitCommon(lib) ==
    /\ DELETE \in BOOLEAN
    /\ JUST_CHECK \in BOOLEAN
    /\ \E S \in (SUBSET lib) \ {{}} :
          fs = [p \in S |-> File(Raw(p), 2, 0)]
    /\ rfs = <<>>
    /\ NoGlobals3
    /\ temp = <<>>
    /\ db = {}
    /\ now = 0
    /\ run = 0
    /\ envn = 0
    /\ faults = 0
    /\ pc = "idle"
    /\ NoLocals
    /\ NoRun

Init == variant = "v4" /\ ssh_configured = FALSE /\ InitCommon(Library)

Init3 == variant = "v3" /\ ssh_configured \in BOOLEAN /\ InitCommon(Library3)

ResetGlobals3 ==
    /\ ssh_enabled' = ssh_configured /\ stdout_bound' = FALSE
    /\ commands' = <<>> /\ cur_file' = <<>>
    /\ video_cmd' = "copy" /\ audio_cmd' = "copy"
    /\ need_remote' = FALSE /\ redo_audio' = FALSE
    /\ retval' = <<>> /\ subq' = <<>> /\ media_info' = <<>>

ResetLocals ==
    /\ sig' = <<0, 0>> /\ r1' = 0 /\ r2' = 0 /\ sw' = FALSE /\ backup' = <<>>
    /\ removed' = FALSE
    /\ calls' = <<>> /\ orig' = <<>>
    /\ p1' = NoCmd /\ p2' = NoCmd /\ probe' = NoProbe

ResetRun ==
    /\ paths' = <<>> /\ idx' = 1
    /\ processed' = 0 /\ skipped' = 0 /\ failed' = 0
    /\ exitcode' = <<>>
    /\ ranFor' = {} /\ skippedNow' = {} /\ fatalAt' = 0 /\ last' = "none"

cfgvars == <<variant, DELETE, JUST_CHECK, ssh_configured>>
globals3 == <<ssh_enabled, stdout_bound, commands, cur_file, video_cmd,
              audio_cmd, need_remote, redo_audio, retval, subq, media_info>>
v3vars == <<globals3, rfs>>
locals == <<sig, r1, r2, sw, backup, removed, calls, orig>>
built == <<p1, p2, probe>>
counters == <<processed, skipped, failed>>
hist == <<ranFor, skippedNow, fatalAt>>

-----------------------------------------------------------------------------
(* The library changes between two runs *)

SourceNames == IF variant = "v4" THEN Library ELSE Library3

\* a file is touched (new mtime, same bytes) or rewritten in place keeping
\* its mtime (new size)
EnvModify ==
    /\ pc = "idle" /\ 0 < run /\ run < MaxRuns /\ envn < MaxEnv
    /\ \E p \in DOMAIN fs \cap SourceNames :
          \/ fs' = [fs EXCEPT ![p].mtime = now + 1, ![p].atime = now + 1]
          \/ \E s \in Sizes \ {fs[p].size} :
                fs' = [fs EXCEPT ![p].size = s, ![p].content = Raw(p)]
    /\ now' = now + 1
    /\ envn' = envn + 1
    /\ ResetLocals /\ ResetRun /\ ResetGlobals3
    /\ UNCHANGED <<cfgvars, rfs, temp, db, run, faults, pc>>

\* a new source file appears in a watched folder
EnvAdd ==
    /\ pc = "idle" /\ 0 < run /\ run < MaxRuns /\ envn < MaxEnv
    /\ \E p \in SourceNames \ DOMAIN fs :
          fs' = Put(fs, p, File(Raw(p), 2, now + 1))
    /\ now' = now + 1
    /\ envn' = envn + 1
    /\ ResetLocals /\ ResetRun /\ ResetGlobals3
    /\ UNCHANGED <<cfgvars, rfs, temp, db, run, faults, pc>>

-----------------------------------------------------------------------------
(* media_convert_4.py, main() *)

\* lines 286-308: collect the candidates; return 0 when there is none
Scan ==
    /\ variant = "v4" /\ pc = "idle" /\ run < MaxRuns
    /\ run' = run + 1
    /\ \E s \in Perms({p \in DOMAIN fs : IsCandidate(p)}) : paths' = s
    /\ idx' = 1
    /\ processed' = 0 /\ skipped' = 0 /\ failed' = 0
    /\ ranFor' = {} /\ skippedNow' = {} /\ fatalAt' = 0 /\ last' = "none"
    /\ ResetLocals
    /\ IF paths' = <<>>
       THEN pc' = "idle" /\ exitcode' = <<0>>
       ELSE pc' = "loop" /\ exitcode' = <<>>
    /\ UNCHANGED <<cfgvars, v3vars, fs, temp, db, now, envn, faults>>

\* the except clause of the loop body (lines 392-399), entered with note = str(e)
Handler(note) ==
    /\ failed' = failed + 1
    /\ last' = "exception"
    /\ IF isfile(in_path)
       THEN db' = db_upsert(db, in_path, file_signature(in_path)[1],
                            file_signature(in_path)[2], "error", note, now)
       ELSE db' = db

\* IterBegin with JUST_CHECK reaching line 329: the file is recorded 'ok'
IterBeginChecked ==
    /\ variant = "v4" /\ pc = "loop" /\ idx <= Len(paths)
    /\ calls' = <<>> /\ r1' = 0 /\ r2' = 0 /\ backup' = <<>> /\ sw' = FALSE
    /\ removed' = FALSE
    /\ IF ~isfile(in_path)
       THEN \* file_signature raises
            /\ Handler(Note("FileNotFoundError", 0))
            /\ idx' = idx + 1
            /\ sig' = <<0, 0>> /\ orig' = <<>>
            /\ p1' = NoCmd /\ p2' = NoCmd /\ probe' = NoProbe
            /\ UNCHANGED <<pc, skipped, skippedNow>>
       ELSE /\ sig' = file_signature(in_path)
            /\ orig' = <<fs[in_path]>>
            /\ IF db_lookup(db, in_path, sig'[1], sig'[2]) # <<>>
               THEN /\ skipped' = skipped + 1
                    /\ skippedNow' = skippedNow \cup {in_path}
                    /\ last' = "skipped"
                    /\ idx' = idx + 1
                    /\ p1' = NoCmd /\ p2' = NoCmd /\ probe' = NoProbe
                    /\ UNCHANGED <<pc, db, failed>>
               ELSE IF JUST_CHECK
               THEN /\ db' = db_upsert(db, in_path, sig'[1], sig'[2], "ok",
                                       Note("checked-only", 0), now)
                    /\ last' = "checked"
                    /\ idx' = idx + 1
                    /\ p1' = NoCmd /\ p2' = NoCmd /\ probe' = NoProbe
                    /\ UNCHANGED <<pc, failed, skipped, skippedNow>>
               ELSE /\ probe' \in {SdrProbe, HdrProbe}
                    /\ p1' = build_two_pass_cmds(probe', in_path, temp_file, FALSE)[1]
                    /\ p2' = build_two_pass_cmds(probe', in_path, temp_file, FALSE)[2]
                    /\ pc' = "pass1"
                    /\ UNCHANGED <<idx, db, failed, skipped, skippedNow, last>>
    /\ UNCHANGED <<cfgvars, v3vars, fs, temp, now, run, envn, faults, paths,
                   processed, exitcode, ranFor, fatalAt>>

\* lines 310-333: signature, store short-circuit, command build
IterBegin ==
    /\ variant = "v4" /\ pc = "loop" /\ idx <= Len(paths)
    /\ calls' = <<>> /\ r1' = 0 /\ r2' = 0 /\ backup' = <<>> /\ sw' = FALSE
    /\ removed' = FALSE
    /\ IF ~isfile(in_path)
       THEN \* file_signature raises
            /\ Handler(Note("FileNotFoundError", 0))
            /\ idx' = idx + 1
            /\ sig' = <<0, 0>> /\ orig' = <<>>
            /\ p1' = NoCmd /\ p2' = NoCmd /\ probe' = NoProbe
            /\ UNCHANGED <<pc, skipped, skippedNow>>
       ELSE /\ sig' = file_signature(in_path)
            /\ orig' = <<fs[in_path]>>
            /\ IF db_lookup(db, in_path, sig'[1], sig'[2]) # <<>>
               THEN /\ skipped' = skipped + 1
                    /\ skippedNow' = skippedNow \cup {in_path}
                    /\ last' = "skipped"
                    /\ idx' = idx + 1
                    /\ p1' = NoCmd /\ p2' = NoCmd /\ probe' = NoProbe
                    /\ UNCHANGED <<pc, db, failed>>
               ELSE IF JUST_CHECK
               THEN \* build_two_pass_cmds is called with two arguments (line 326)
                    /\ Handler(Note("TypeError", 0))
                    /\ idx' = idx + 1
                    /\ p1' = NoCmd /\ p2' = NoCmd /\ probe' = NoProbe
                    /\ UNCHANGED <<pc, skipped, skippedNow>>
               ELSE /\ probe' \in {SdrProbe, HdrProbe}
                    /\ p1' = build_two_pass_cmds(probe', in_path, temp_file, FALSE)[1]
                    /\ p2' = build_two_pass_cmds(probe', in_path, temp_file, FALSE)[2]
                    /\ pc' = "pass1"
                    /\ UNCHANGED <<idx, db, failed, skipped, skippedNow, last>>
    /\ UNCHANGED <<cfgvars, v3vars, fs, temp, now, run, envn, faults, paths,
                   processed, exitcode, ranFor, fatalAt>>

NoteFatal(rc) == IF fatalAt = 0 /\ IsFatal(rc) THEN idx ELSE fatalAt

\* an encoder process ends with status rc; a non-zero status is a failure
Exits(rc) ==
    /\ rc \in ExitCodes
    /\ rc # 0 => faults < MaxFaults
    /\ faults' = IF rc # 0 THEN faults + 1 ELSE faults

\* a file-system call succeeds (ok) or raises
FsCall(ok) ==
    /\ ok \in BOOLEAN
    /\ ~ok => faults < MaxFaults
    /\ faults' = IF ok THEN faults ELSE faults + 1

\* Pass1Hw falling back to the software tonemap on any failure of pass 1
Pass1HwAnyFailure ==
    /\ variant = "v4" /\ pc = "pass1"
    /\ \E rc \in ExitCodes, diag \in BOOLEAN :
          /\ Exits(rc)
          /\ rc = 0 => ~diag
          /\ r1' = rc
          /\ calls' = Append(calls, Call("pass1", sw, rc, diag))
          /\ fatalAt' = NoteFatal(rc)
          /\ IF rc # 0
             THEN /\ sw' = TRUE /\ pc' = "pass1sw"
                  /\ p1' = build_two_pass_cmds(probe, in_path, temp_file, TRUE)[1]
                  /\ p2' = build_two_pass_cmds(probe, in_path, temp_file, TRUE)[2]
             ELSE sw' = sw /\ pc' = "pass2" /\ UNCHANGED <<p1, p2>>
    /\ ranFor' = ranFor \cup {in_path}
    /\ UNCHANGED <<cfgvars, v3vars, probe, fs, temp, db, now, run, envn, paths, idx, sig, r2,
                   backup, removed, counters, exitcode, orig, skippedNow, last>>

\* Pass1Hw taking only the pass-1 command from the rebuild
Pass1HwKeepsP2 ==
    /\ variant = "v4" /\ pc = "pass1"
    /\ \E rc \in ExitCodes, diag \in BOOLEAN :
          /\ Exits(rc)
          /\ rc = 0 => ~diag
          /\ r1' = rc
          /\ calls' = Append(calls, Call("pass1", sw, rc, diag))
          /\ fatalAt' = NoteFatal(rc)
          /\ IF rc # 0 /\ diag
             THEN /\ sw' = TRUE /\ pc' = "pass1sw"
                  /\ p1' = build_two_pass_cmds(probe, in_path, temp_file, TRUE)[1]
                  /\ p2' = p2
             ELSE /\ sw' = sw /\ pc' = IF rc # 0 THEN "pass1failed" ELSE "pass2"
                  /\ UNCHANGED <<p1, p2>>
    /\ ranFor' = ranFor \cup {in_path}
    /\ UNCHANGED <<cfgvars, v3vars, probe, fs, temp, db, now, run, envn, paths, idx, sig, r2,
                   backup, removed, counters, exitcode, orig, skippedNow, last>>

\* lines 337-345: hardware pass 1; on the diagnostic, rebuild with sw_tonemap
Pass1Hw ==
    /\ variant = "v4" /\ pc = "pass1"
    /\ \E rc \in ExitCodes, diag \in BOOLEAN :
          /\ Exits(rc)
          /\ rc = 0 => ~diag
          /\ r1' = rc
          /\ calls' = Append(calls, Call("pass1", sw, rc, diag))
          /\ fatalAt' = NoteFatal(rc)
          /\ IF rc # 0 /\ diag
             THEN /\ sw' = TRUE /\ pc' = "pass1sw"
                  /\ p1' = build_two_pass_cmds(probe, in_path, temp_file, TRUE)[1]
                  /\ p2' = build_two_pass_cmds(probe, in_path, temp_file, TRUE)[2]
             ELSE /\ sw' = sw /\ pc' = IF rc # 0 THEN "pass1failed" ELSE "pass2"
                  /\ UNCHANGED <<p1, p2>>
    /\ ranFor' = ranFor \cup {in_path}
    /\ UNCHANGED <<cfgvars, v3vars, probe, fs, temp, db, now, run, envn, paths, idx, sig, r2,
                   backup, removed, counters, exitcode, orig, skippedNow, last>>

\* Pass1Sw going on to pass 2 whatever the fallback returned
Pass1SwIgnored ==
    /\ variant = "v4" /\ pc = "pass1sw"
    /\ \E rc \in ExitCodes :
          /\ Exits(rc)
          /\ r1' = rc
          /\ calls' = Append(calls, Call("pass1", sw, rc, FALSE))
          /\ fatalAt' = NoteFatal(rc)
          /\ pc' = "pass2"
    /\ UNCHANGED <<cfgvars, v3vars, built, fs, temp, db, now, run, envn, paths, idx, sig,
                   r2, sw, backup, removed, counters, exitcode, orig, ranFor,
                   skippedNow, last>>

\* line 345: software-tonemap pass 1
Pass1Sw ==
    /\ variant = "v4" /\ pc = "pass1sw"
    /\ \E rc \in ExitCodes :
          /\ Exits(rc)
          /\ r1' = rc
          /\ calls' = Append(calls, Call("pass1", sw, rc, FALSE))
          /\ fatalAt' = NoteFatal(rc)
          /\ pc' = IF rc # 0 THEN "pass1failed" ELSE "pass2"
    /\ UNCHANGED <<cfgvars, v3vars, built, fs, temp, db, now, run, envn, paths, idx, sig,
                   r2, sw, backup, removed, counters, exitcode, orig, ranFor,
                   skippedNow, last>>

\* lines 346-351
Pass1Failed ==
    /\ variant = "v4" /\ pc = "pass1failed"
    /\ failed' = failed + 1
    /\ db' = db_upsert(db, in_path, sig[1], sig[2], "error",
                       Note("pass1 exit", r1), now)
    /\ last' = "pass1 failed"
    /\ idx' = idx + 1
    /\ pc' = "loop"
    /\ UNCHANGED <<cfgvars, v3vars, built, fs, temp, now, run, envn, faults, paths, locals,
                   processed, skipped, exitcode, hist>>

\* Pass2 run again after a failure
Pass2Retry ==
    /\ variant = "v4" /\ pc = "pass2"
    /\ \E rc \in ExitCodes :
          /\ Exits(rc)
          /\ r2' = rc
          /\ calls' = Append(calls, Call("pass2", sw, rc, FALSE))
          /\ fatalAt' = NoteFatal(rc)
          /\ IF rc = 0
             THEN /\ temp' = <<File(Encoded(fs[in_path].content), 1, now + 1)>>
                  /\ pc' = "moveorig"
             ELSE /\ temp' = temp
                  /\ pc' = IF Len(calls) < 3 THEN "pass2" ELSE "pass2failed"
    /\ now' = now + 1
    /\ UNCHANGED <<cfgvars, v3vars, built, fs, db, run, envn, paths, idx, sig, r1, sw,
                   backup, removed, counters, exitcode, orig, ranFor, skippedNow,
                   last>>

\* lines 353-355: pass 2 writes temp_file
Pass2 ==
    /\ variant = "v4" /\ pc = "pass2"
    /\ \E rc \in ExitCodes :
          /\ Exits(rc)
          /\ r2' = rc
          /\ calls' = Append(calls, Call("pass2", sw, rc, FALSE))
          /\ fatalAt' = NoteFatal(rc)
          /\ IF rc = 0
             THEN /\ temp' = <<File(Encoded(fs[in_path].content), 1, now + 1)>>
                  /\ pc' = "moveorig"
             ELSE /\ \/ temp' = temp
                     \/ temp' = <<File(Partial(fs[in_path].content), 1, now + 1)>>
                  /\ pc' = "pass2failed"
    /\ now' = now + 1
    /\ UNCHANGED <<cfgvars, v3vars, built, fs, db, run, envn, paths, idx, sig, r1, sw,
                   backup, removed, counters, exitcode, orig, ranFor, skippedNow,
                   last>>

\* lines 357-365: move the source aside
MoveOriginal ==
    /\ variant = "v4" /\ pc = "moveorig"
    /\ backup' = BackupName(fs, in_path)
    /\ \E ok \in BOOLEAN :
          /\ FsCall(ok)
          /\ IF ok
             THEN /\ fs' = Put(Remove(fs, in_path), backup', fs[in_path])
                  /\ pc' = "moveout"
                  /\ UNCHANGED <<failed, idx, last>>
             ELSE /\ failed' = failed + 1
                  /\ last' = "move original failed"
                  /\ idx' = idx + 1
                  /\ pc' = "loop"
                  /\ UNCHANGED fs
    /\ UNCHANGED <<cfgvars, v3vars, built, temp, db, now, run, envn, paths, sig, r1,
                   r2, sw, removed, calls, orig, processed, skipped, exitcode,
                   hist>>

\* lines 366-372: move the pass-2 output to the destination
MoveOutput ==
    /\ variant = "v4" /\ pc = "moveout"
    /\ \E ok \in BOOLEAN :
          /\ FsCall(ok)
          /\ IF ok /\ temp # <<>>
             THEN /\ fs' = Put(fs, out_path, temp[1])
                  /\ temp' = <<>>
                  /\ pc' = IF DELETE THEN "delete" ELSE "record"
                  /\ UNCHANGED <<failed, idx, last>>
             ELSE /\ failed' = failed + 1
                  /\ last' = "move output failed"
                  /\ idx' = idx + 1
                  /\ pc' = "loop"
                  /\ UNCHANGED <<fs, temp>>
    /\ UNCHANGED <<cfgvars, v3vars, built, db, now, run, envn, paths, locals, processed,
                   skipped, exitcode, hist>>

\* lines 373-377: delete the backup, or log and go on
DeleteBackup ==
    /\ variant = "v4" /\ pc = "delete"
    /\ \E ok \in BOOLEAN :
          /\ FsCall(ok)
          /\ fs' = IF ok THEN Remove(fs, backup) ELSE fs
          /\ removed' = ok
    /\ pc' = "record"
    /\ UNCHANGED <<cfgvars, v3vars, built, temp, db, now, run, envn, paths, idx, sig, r1, r2,
                   sw, backup, calls, orig, counters, exitcode, hist, last>>

\* RecordOk writing the record for the source path and signature
RecordOkSource ==
    /\ variant = "v4" /\ pc = "record"
    /\ db' = db_upsert(db, in_path, sig[1], sig[2], "ok",
                       Note("encoded-av1", 0), now)
    /\ processed' = processed + 1
    /\ last' = "processed"
    /\ idx' = idx + 1
    /\ pc' = "loop"
    /\ UNCHANGED <<cfgvars, v3vars, built, fs, temp, now, run, envn, faults, paths, locals,
                   skipped, failed, exitcode, hist>>

\* lines 378-381
RecordOk ==
    /\ variant = "v4" /\ pc = "record"
    /\ db' = db_upsert(db, out_path, file_signature(out_path)[1],
                       file_signature(out_path)[2], "ok",
                       Note("encoded-av1", 0), now)
    /\ processed' = processed + 1
    /\ last' = "processed"
    /\ idx' = idx + 1
    /\ pc' = "loop"
    /\ UNCHANGED <<cfgvars, v3vars, built, fs, temp, now, run, envn, faults, paths, locals,
                   skipped, failed, exitcode, hist>>

\* Pass2Failed recording the failure for the destination and dropping the code
Pass2FailedDest ==
    /\ variant = "v4" /\ pc = "pass2failed"
    /\ failed' = failed + 1
    /\ db' = db_upsert(db, out_path, sig[1], sig[2], "error",
                       Note("pass2 exit", 0), now)
    /\ IF temp # <<>>
       THEN \E ok \in BOOLEAN :
               /\ FsCall(ok)
               /\ temp' = IF ok THEN <<>> ELSE temp
       ELSE UNCHANGED <<temp, faults>>
    /\ last' = "pass2 failed"
    /\ idx' = idx + 1
    /\ pc' = "loop"
    /\ UNCHANGED <<cfgvars, v3vars, built, fs, now, run, envn, paths, locals, processed,
                   skipped, exitcode, hist>>

\* lines 382-391
Pass2Failed ==
    /\ variant = "v4" /\ pc = "pass2failed"
    /\ failed' = failed + 1
    /\ db' = db_upsert(db, in_path, sig[1], sig[2], "error",
                       Note("pass2 exit", r2), now)
    /\ IF temp # <<>>
       THEN \E ok \in BOOLEAN :
               /\ FsCall(ok)
               /\ temp' = IF ok THEN <<>> ELSE temp
       ELSE UNCHANGED <<temp, faults>>
    /\ last' = "pass2 failed"
    /\ idx' = idx + 1
    /\ pc' = "loop"
    /\ UNCHANGED <<cfgvars, v3vars, built, fs, now, run, envn, paths, locals, processed,
                   skipped, exitcode, hist>>

\* lines 401-403 and 407
RunEnd ==
    /\ variant = "v4" /\ pc = "loop" /\ idx > Len(paths)
    /\ exitcode' = <<0>>
    /\ pc' = "idle"
    /\ UNCHANGED <<cfgvars, v3vars, built, fs, temp, db, now, run, envn, faults, paths, idx,
                   locals, counters, hist, last>>

Next ==
    \/ EnvModify \/ EnvAdd
    \/ Scan \/ IterBegin \/ Pass1Hw \/ Pass1Sw \/ Pass1Failed \/ Pass2
    \/ MoveOriginal \/ MoveOutput \/ DeleteBackup \/ RecordOk \/ Pass2Failed
    \/ RunEnd

Spec == Init /\ [][Next]_vars

\* lines 273-281: SIGINT or SIGTERM arrives while main() runs; signal_handler
\* calls sys.exit(0), the SystemExit passes every "except Exception" and the
\* process ends where it stands (subprocess kills an encoder it waits for)
Signal ==
    /\ variant = "v4" /\ pc # "idle"
    /\ pc' = "idle" /\ exitcode' = <<0>> /\ last' = "signal"
    /\ IF pc = "pass2"
       THEN \/ temp' = temp
            \/ temp' = <<File(Partial(fs[in_path].content), 1, now + 1)>>
       ELSE temp' = temp
    /\ UNCHANGED <<cfgvars, v3vars, built, fs, db, now, run, envn, faults, paths, idx,
                   locals, counters, hist>>

NextSignal == Next \/ Signal

SpecSignal == Init /\ [][NextSignal]_vars

\* the except clause entered from a db_upsert that raises after the counter
\* failed has been raised for this file (lines 348-349, 383-384, 392-399):
\* failed is raised again, and the handler's own upsert succeeds or is skipped
StoreFault(note) ==
    /\ faults < MaxFaults /\ faults' = faults + 1
    /\ failed' = failed + 2
    /\ \/ db' = db
       \/ db' = db_upsert(db, in_path, file_signature(in_path)[1],
                          file_signature(in_path)[2], "error", note, now)
    /\ last' = "exception"
    /\ idx' = idx + 1
    /\ pc' = "loop"
    /\ UNCHANGED <<cfgvars, v3vars, built, fs, temp, now, run, envn, paths,
                   locals, processed, skipped, exitcode, hist>>

\* lines 346-349 with db_upsert raising sqlite3.Error
Pass1FailedStoreFault ==
    /\ variant = "v4" /\ pc = "pass1failed" /\ isfile(in_path)
    /\ StoreFault(Note("sqlite3.Error", 0))

\* lines 382-384 with db_upsert raising: the temp file is not looked at
Pass2FailedStoreFault ==
    /\ variant = "v4" /\ pc = "pass2failed" /\ isfile(in_path)
    /\ StoreFault(Note("sqlite3.Error", 0))

NextStore == Next \/ Pass1FailedStoreFault \/ Pass2FailedStoreFault

SpecStore == Init /\ [][NextStore]_vars

\* build_two_pass_cmds on its own: any output of ffprobe, either flag
InitBuild ==
    /\ variant = "v4" /\ ssh_configured = FALSE
    /\ DELETE = TRUE /\ JUST_CHECK = FALSE
    /\ \E p \in Library :
          /\ fs = [q \in {p} |-> File(Raw(q), 2, 0)]
          /\ paths = <<p>>
          /\ orig = <<File(Raw(p), 2, 0)>>
    /\ rfs = <<>> /\ NoGlobals3
    /\ temp = <<>> /\ db = {}
    /\ now = 0 /\ run = 1 /\ envn = 0 /\ faults = 0
    /\ idx = 1
    /\ sig = <<2, 0>> /\ r1 = 0 /\ r2 = 0 /\ backup = <<>> /\ removed = FALSE
    /\ calls = <<>>
    /\ sw \in BOOLEAN
    /\ \E ct \in Transfers, cp \in Primaries : probe = Probe(ct, cp)
    /\ p1 = NoCmd /\ p2 = NoCmd
    /\ processed = 0 /\ skipped = 0 /\ failed = 0
    /\ exitcode = <<>>
    /\ ranFor = {} /\ skippedNow = {} /\ fatalAt = 0 /\ last = "none"
    /\ pc = "build"

\* lines 333 and 343: p1, p2 = build_two_pass_cmds(in_path, temp_file, flag)
BuildCmds ==
    /\ variant = "v4" /\ pc = "build"
    /\ p1' = build_two_pass_cmds(probe, in_path, temp_file, sw)[1]
    /\ p2' = build_two_pass_cmds(probe, in_path, temp_file, sw)[2]
    /\ pc' = "built"
    /\ UNCHANGED <<cfgvars, v3vars, probe, fs, temp, db, now, run, envn, faults,
                   paths, idx, locals, counters, exitcode, hist, last>>

NextBuild == BuildCmds

SpecBuild == InitBuild /\ [][NextBuild]_vars

-----------------------------------------------------------------------------
(* media_convert_3.py *)

\* variables media_convert_3 has no use for
v4only == <<db, sig, r1, r2, sw, backup, removed, processed, skipped, failed,
            skippedNow, p1, p2, probe>>

\* str.startswith on the strings media inspection reports in this model
StartsWith(s, prefix) ==
    <<s, prefix>> \in {<<"AVC", "AVC">>, <<"Main@L4", "Main">>,
                       <<"AAC", "AAC">>, <<"S_TEXT/UTF8", "S_TEXT">>}

Track(type, format, profile, bit_rate, height, width, channels, codec, lang, id) ==
    [track_type |-> type, format |-> format, format_profile |-> profile,
     bit_rate |-> bit_rate, height |-> height, width |-> width,
     channel_s |-> channels, codec_id |-> codec, language |-> lang,
     track_id |-> id]

\* tracks media inspection may report; bit_rate 0 stands for no bit rate
VideoMain == Track("Video", "AVC", "Main@L4", 6000000, 1080, 1920, 0, "V_MPEG4", "None", 1)
VideoHevc == Track("Video", "HEVC", "Main@L4", 6000000, 1080, 1920, 0, "V_MPEGH", "None", 1)
AudioStereo == Track("Audio", "AAC", "LC", 0, 0, 0, 2, "A_AAC", "en", 2)
AudioSurround == Track("Audio", "AC-3", "None", 0, 0, 0, 6, "A_AC3", "en", 2)
TextEn == Track("Text", "UTF-8", "None", 0, 0, 0, 0, "S_TEXT/UTF8", "en", 3)

\* further tracks, each off policy in one field (VideoLow and VideoAtMax sit
\* on the bit rate limits of media_convert_2 and media_convert_3)
VideoLow == Track("Video", "AVC", "Main@L4", 5000000, 720, 1280, 0, "V_MPEG4", "None", 1)
VideoAtMax == Track("Video", "AVC", "Main@L4", 7000000, 1080, 1920, 0, "V_MPEG4", "None", 1)
VideoFast == Track("Video", "AVC", "Main@L4", 8000000, 1080, 1920, 0, "V_MPEG4", "None", 1)
VideoHigh == Track("Video", "AVC", "High@L4", 4000000, 720, 1280, 0, "V_MPEG4", "None", 1)
VideoNoRate == Track("Video", "AVC", "Main@L4", 0, 720, 1280, 0, "V_MPEG4", "None", 1)
VideoTall == Track("Video", "AVC", "Main@L4", 4000000, 1440, 1920, 0, "V_MPEG4", "None", 1)
VideoWide == Track("Video", "AVC", "Main@L4", 4000000, 1080, 2560, 0, "V_MPEG4", "None", 1)
AudioAac6 == Track("Audio", "AAC", "LC", 0, 0, 0, 6, "A_AAC", "en", 2)
AudioMp3 == Track("Audio", "MPEG Audio", "None", 0, 0, 0, 2, "A_MPEG/L3", "en", 2)
General == Track("General", "Matroska", "None", 0, 0, 0, 0, "None", "None", 0)

Tracks == {VideoMain, VideoHevc, VideoLow, VideoAtMax, VideoFast, VideoHigh,
           VideoNoRate, VideoTall, VideoWide, AudioStereo, AudioSurround,
           AudioAac6, AudioMp3, TextEn, General}

TrackLists == {<<VideoMain, AudioStereo>>, <<VideoHevc, AudioStereo>>,
               <<VideoMain, AudioSurround, TextEn>>, <<>>}

\* the three conditions under which a Video track sets video_cmd (lines
\* 278-286; lines 204-209 of media_convert_2), with the MAX_BITRATE in force
VideoRule(track, max_bitrate) ==
    \/ track.bit_rate = 0
    \/ (\/ ~StartsWith(track.format, VIDEO_CODEC)
        \/ track.bit_rate > max_bitrate
        \/ track.height > MAX_HEIGHT
        \/ track.width > MAX_WIDTH)
    \/ (StartsWith(track.format, VIDEO_CODEC)
        /\ ~StartsWith(track.format_profile, VIDEO_PROFILE))

\* lines 277-286: the Video track sets video_cmd and need_remote
VideoEncode(track) ==
    track.track_type = "Video" /\ VideoRule(track, MAX_BITRATE)

\* lines 203-209 of media_convert_2
VideoEncode2(track) ==
    track.track_type = "Video" /\ VideoRule(track, MAX_BITRATE2)

\* AudioEncode asking for both conditions at once
AudioEncodeBoth(track) ==
    /\ track.track_type = "Audio"
    /\ (track.channel_s > MAX_CHANNELS /\ ~StartsWith(track.format, AUDIO_CODEC))

\* lines 287-290 (210-212 of media_convert_2): the Audio track sets
\* redo_audio and audio_cmd
AudioEncode(track) ==
    /\ track.track_type = "Audio"
    /\ (track.channel_s > MAX_CHANNELS \/ ~StartsWith(track.format, AUDIO_CODEC))

\* lines 270-273: the values the four variables have before the track loop
Defaults ==
    [video_cmd |-> "copy", audio_cmd |-> "copy",
     need_remote |-> FALSE, redo_audio |-> FALSE]

\* a track loop body in which a Video or Audio track within policy sets the
\* command back to copy
TrackStepLast(acc, track, v2) ==
    IF track.track_type = "Video"
    THEN IF (IF v2 THEN VideoEncode2(track) ELSE VideoEncode(track))
         THEN [acc EXCEPT !.video_cmd = "encode", !.need_remote = ~v2]
         ELSE [acc EXCEPT !.video_cmd = "copy", !.need_remote = FALSE]
    ELSE IF track.track_type = "Audio"
    THEN IF AudioEncode(track)
         THEN [acc EXCEPT !.audio_cmd = "encode", !.redo_audio = ~v2]
         ELSE [acc EXCEPT !.audio_cmd = "copy", !.redo_audio = FALSE]
    ELSE acc

\* one turn of the track loop (lines 276-290; 202-212 of media_convert_2,
\* which has neither need_remote nor redo_audio)
TrackStep(acc, track, v2) ==
    IF track.track_type = "Video"
    THEN IF (IF v2 THEN VideoEncode2(track) ELSE VideoEncode(track))
         THEN [acc EXCEPT !.video_cmd = "encode", !.need_remote = ~v2]
         ELSE acc
    ELSE IF track.track_type = "Audio"
    THEN IF AudioEncode(track)
         THEN [acc EXCEPT !.audio_cmd = "encode", !.redo_audio = ~v2]
         ELSE acc
    ELSE acc

\* the track loop over media_info.tracks, in order
RECURSIVE Classify(_, _, _)
Classify(acc, tracks, v2) ==
    IF tracks = <<>> THEN acc
    ELSE Classify(TrackStep(acc, Head(tracks), v2), Tail(tracks), v2)

\* lines 291-294: subname of every Text track to extract, in track order
SubNames(tracks) ==
    LET IsSub(t) == t.track_type = "Text" /\ StartsWith(t.codec_id, "S_TEXT")
        texts == SelectSeq(tracks, IsSub)
    IN  [i \in 1..Len(texts) |->
            IF texts[i].language # "None" THEN texts[i].language
            ELSE ToString(texts[i].track_id)]

\* the subtitle name without the loop of lines 298-300
SubFileFixed(f, file, subname, subcount) ==
    Append([file EXCEPT ![Len(file)] = subname], "srt")

\* lines 295-301: the first subtitle name not taken
RECURSIVE SubFile(_, _, _, _)
SubFile(f, file, subname, subcount) ==
    LET part == IF subcount = 0 THEN subname ELSE subname \o ToString(subcount)
        name == Append([file EXCEPT ![Len(file)] = part], "srt")
    IN  IF name \in DOMAIN f THEN SubFile(f, file, subname, subcount + 1) ELSE name

\* the path ends with one of valid_extensions, or with EXT and its mtime is
\* not later than its atime (names of this model end with a whole extension)
needs_convert(file) ==
    LET e == file[Len(file)]
    IN  IF e \in valid_extensions THEN TRUE
        ELSE IF e = EXT3 THEN ~(fs[file].mtime > fs[file].atime)
        ELSE FALSE

to_mp4_naming(filename) == [filename EXCEPT ![Len(filename)] = EXT3]

in_file == <<"in", cur_file[Len(cur_file)]>>
out_file == <<"out", EXT3>>

B(b) == IF b THEN 1 ELSE 0

\* n calls of this step fail
Faults(n) == faults + n <= MaxFaults /\ faults' = faults + n

\* sys.exit(code), or an exception nothing catches (code 1)
Exit3(code, how) ==
    pc' = "idle" /\ exitcode' = <<code>> /\ idx' = idx /\ last' = how

\* the loop takes up the next path
NextFile3(how) ==
    pc' = "loop3" /\ exitcode' = exitcode /\ idx' = idx + 1 /\ last' = how

Goto3(label) ==
    pc' = label /\ exitcode' = exitcode /\ idx' = idx /\ last' = last

\* lines 223-239: collect the paths needs_convert accepts
Scan3 ==
    /\ variant = "v3" /\ pc = "idle" /\ run < MaxRuns
    /\ run' = run + 1
    /\ \E s \in Perms({p \in DOMAIN fs : needs_convert(p)}) : paths' = s
    /\ ResetGlobals3
    /\ calls' = <<>> /\ orig' = <<>> /\ ranFor' = {} /\ fatalAt' = 0
    /\ idx' = 1 /\ exitcode' = <<>> /\ last' = "none"
    /\ pc' = IF ssh_configured /\ paths' # <<>> THEN "ssh3" ELSE "loop3"
    /\ UNCHANGED <<cfgvars, v4only, rfs, fs, temp, now, envn, faults>>

\* lines 241-263: connect, open_sftp, chdir.  When connect or open_sftp fails
\* sftp_client is never assigned and line 255 raises NameError.
SshSetup3 ==
    /\ variant = "v3" /\ pc = "ssh3"
    /\ \E connected, opened, found \in BOOLEAN :
          /\ ~connected => ~opened
          /\ ~opened => ~found
          /\ Faults(B(~found))
          /\ IF ~opened
             THEN ssh_enabled' = FALSE /\ Exit3(1, "crashed")
             ELSE ssh_enabled' = found /\ Goto3("loop3")
    /\ UNCHANGED <<cfgvars, v4only, media_info, stdout_bound, rfs, commands, cur_file,
                   video_cmd, audio_cmd, need_remote, redo_audio, retval, subq,
                   fs, temp, now, run, envn, paths, calls, orig, ranFor,
                   fatalAt>>

\* lines 311 and 364-368: remote encode, command list, or local encode
Branch3(file, v, a, remote) ==
    IF remote /\ ssh_enabled /\ ~JUST_CHECK
    THEN Goto3("send3") /\ commands' = commands
    ELSE IF JUST_CHECK
    THEN /\ commands' = Append(commands, [file |-> file, video |-> v, audio |-> a])
         /\ NextFile3("checked")
    ELSE Goto3("local3") /\ commands' = commands

\* lines 266-294: media inspection and the track loop
Begin3 ==
    /\ variant = "v3" /\ pc = "loop3" /\ idx <= Len(paths)
    /\ cur_file' = normalize_path(in_path)
    /\ calls' = <<>>
    /\ IF ~isfile(in_path)
       THEN \* MediaInfo.parse raises
            /\ Exit3(1, "crashed")
            /\ orig' = <<>>
            /\ video_cmd' = "copy" /\ audio_cmd' = "copy"
            /\ need_remote' = FALSE /\ redo_audio' = FALSE
            /\ UNCHANGED <<subq, commands, media_info>>
       ELSE \E tracks \in TrackLists :
            LET c == Classify(Defaults, tracks, FALSE)
            IN  /\ orig' = <<fs[in_path]>>
                /\ media_info' = tracks
                /\ video_cmd' = c.video_cmd
                /\ need_remote' = c.need_remote
                /\ redo_audio' = c.redo_audio
                /\ audio_cmd' = c.audio_cmd
                /\ subq' = SubNames(tracks)
                /\ IF subq' # <<>>
                   THEN Goto3("sub3") /\ commands' = commands
                   ELSE Branch3(cur_file', video_cmd', audio_cmd', need_remote')
    /\ UNCHANGED <<cfgvars, v4only, ssh_enabled, stdout_bound, rfs, retval, fs,
                   temp, now, run, envn, faults, paths, ranFor, fatalAt>>

\* lines 295-310: extract one subtitle track
Extract3 ==
    /\ variant = "v3" /\ pc = "sub3"
    /\ \E rc \in ExitCodes3 :
          LET subfile == SubFile(fs, cur_file, Head(subq), 0)
          IN  /\ Faults(B(rc # 0))
              /\ retval' = <<rc>>
              /\ calls' = Append(calls, Call("subtitle", FALSE, rc, FALSE))
              /\ fatalAt' = NoteFatal(rc)
              /\ fs' = IF rc = 0
                       THEN Put(fs, subfile, File(Raw(subfile), 1, now + 1))
                       ELSE fs
              /\ subq' = Tail(subq)
              /\ IF IsFatal(rc)
                 THEN Exit3(1, "fatal") /\ commands' = commands
                 ELSE IF subq' # <<>>
                 THEN Goto3("sub3") /\ commands' = commands
                 ELSE Branch3(cur_file, video_cmd, audio_cmd, need_remote)
    /\ now' = now + 1
    /\ UNCHANGED <<cfgvars, v4only, media_info, ssh_enabled, stdout_bound, rfs, cur_file,
                   video_cmd, audio_cmd, need_remote, redo_audio, temp, run,
                   envn, paths, orig, ranFor>>

\* the branch on retval after an encode (lines 380 and 393, 337 and 360)
AfterEncode3(rv, success) ==
    IF rv = 0 THEN Goto3(success)
    ELSE IF IsFatal(rv) THEN Exit3(1, "fatal")
    ELSE NextFile3("failed")

\* lines 370-379: drop a left-over temp_file, run the encoder
Local3 ==
    /\ variant = "v3" /\ pc = "local3"
    /\ \E deleted \in BOOLEAN, rc \in ExitCodes3, partial \in BOOLEAN :
          /\ temp = <<>> => deleted
          /\ rc = 0 => ~partial
          /\ Faults(B(~deleted) + B(rc # 0))
          /\ temp' = IF rc = 0
                     THEN <<File(Encoded(fs[cur_file].content), 1, now + 1)>>
                     ELSE IF partial
                     THEN <<File(Partial(fs[cur_file].content), 1, now + 1)>>
                     ELSE IF deleted THEN <<>> ELSE temp
          /\ retval' = <<rc>>
          /\ calls' = Append(calls, Call("encode", FALSE, rc, FALSE))
          /\ fatalAt' = NoteFatal(rc)
          /\ AfterEncode3(rc, "replace3")
    /\ ranFor' = ranFor \cup {in_path}
    /\ now' = now + 1
    /\ UNCHANGED <<cfgvars, v4only, media_info, ssh_enabled, stdout_bound, rfs, commands,
                   cur_file, video_cmd, audio_cmd, need_remote, redo_audio,
                   subq, fs, run, envn, paths, orig>>

\* lines 382-384 (349-351): with DELETE, remove the source first
Delete3 ==
    /\ variant = "v3" /\ pc = "replace3" /\ DELETE
    /\ \E ok \in BOOLEAN :
          /\ Faults(B(~ok))
          /\ fs' = IF ok THEN Remove(fs, cur_file) ELSE fs
    /\ cur_file' = to_mp4_naming(cur_file)
    /\ Goto3("move3")
    /\ UNCHANGED <<cfgvars, v4only, media_info, ssh_enabled, stdout_bound, rfs, commands,
                   video_cmd, audio_cmd, need_remote, redo_audio, retval, subq,
                   temp, now, run, envn, paths, calls, orig, ranFor, fatalAt>>

\* the name the output is moved to (lines 384, 387-389)
Target3 ==
    IF DELETE THEN cur_file
    ELSE IF cur_file = to_mp4_naming(cur_file)
    THEN to_mp4_naming(Append(cur_file, "new"))
    ELSE to_mp4_naming(cur_file)

\* lines 385 and 390 (352 and 357): move(temp_file, cur_file) logs a failure
Move3 ==
    /\ variant = "v3"
    /\ pc = "move3" \/ (pc = "replace3" /\ ~DELETE)
    /\ \E ok \in BOOLEAN :
          /\ ok => temp # <<>>
          /\ Faults(B(~ok /\ temp # <<>>))
          /\ IF ok
             THEN fs' = Put(fs, Target3, temp[1]) /\ temp' = <<>>
             ELSE UNCHANGED <<fs, temp>>
    /\ cur_file' = Target3
    /\ Goto3("utime3")
    /\ UNCHANGED <<cfgvars, v4only, media_info, ssh_enabled, stdout_bound, rfs, commands,
                   video_cmd, audio_cmd, need_remote, redo_audio, retval, subq,
                   now, run, envn, paths, calls, orig, ranFor, fatalAt>>

\* lines 391-392 (358-359): os.stat and os.utime of cur_file
Utime3 ==
    /\ variant = "v3" /\ pc = "utime3"
    /\ \E ok \in BOOLEAN :
          /\ ok => isfile(cur_file)
          /\ Faults(B(~ok /\ isfile(cur_file)))
          /\ IF ok
             THEN /\ fs' = [fs EXCEPT ![cur_file].mtime = @ + MTIME_SHIFT]
                  /\ NextFile3("processed")
             ELSE /\ fs' = fs
                  /\ Exit3(1, "crashed")
    /\ UNCHANGED <<cfgvars, v4only, media_info, ssh_enabled, stdout_bound, rfs, commands,
                   cur_file, video_cmd, audio_cmd, need_remote, redo_audio,
                   retval, subq, temp, now, run, envn, paths, calls, orig,
                   ranFor, fatalAt>>

\* lines 312-327: replace in_file on the remote host by the source
Send3 ==
    /\ variant = "v3" /\ pc = "send3"
    /\ \E ok \in BOOLEAN :
          /\ Faults(B(~ok))
          /\ IF ok
             THEN /\ rfs' = Put(rfs, in_file, fs[cur_file].content)
                  /\ Goto3("exec3")
             ELSE /\ rfs' = rfs
                  /\ Exit3(1, "crashed")
    /\ video_cmd' = "ssh encode"
    /\ audio_cmd' = IF redo_audio THEN "ssh encode" ELSE audio_cmd
    /\ UNCHANGED <<cfgvars, v4only, media_info, ssh_enabled, stdout_bound, commands,
                   cur_file, need_remote, redo_audio, retval, subq, fs, temp,
                   now, run, envn, paths, calls, orig, ranFor, fatalAt>>

\* lines 330-337 and 360-363: the remote encoder.  When exec_command raises,
\* stdout and retval keep what an earlier iteration left in them; stdout
\* never assigned raises NameError at line 335.
Exec3 ==
    /\ variant = "v3" /\ pc = "exec3"
    /\ ranFor' = ranFor \cup {in_path}
    /\ \/ \E rc \in ExitCodes3 :
             /\ Faults(B(rc # 0))
             /\ retval' = <<rc>>
             /\ stdout_bound' = TRUE
             /\ calls' = Append(calls, Call("remote", FALSE, rc, FALSE))
             /\ fatalAt' = NoteFatal(rc)
             /\ rfs' = IF rc = 0 THEN Put(rfs, out_file, Encoded(rfs[in_file]))
                      ELSE rfs
             /\ AfterEncode3(rc, "get3")
       \/ /\ Faults(1)
          /\ UNCHANGED <<retval, stdout_bound, calls, fatalAt, rfs>>
          /\ IF ~stdout_bound \/ retval = <<>>
             THEN Exit3(1, "crashed")
             ELSE AfterEncode3(retval[1], "get3")
    /\ UNCHANGED <<cfgvars, v4only, media_info, ssh_enabled, commands, cur_file, video_cmd,
                   audio_cmd, need_remote, redo_audio, subq, fs, temp, now,
                   run, envn, paths, orig>>

\* lines 339-348: fetch out_file into temp_file, clear the remote folder
Get3 ==
    /\ variant = "v3" /\ pc = "get3"
    /\ \E deleted, got, rm_in, rm_out \in BOOLEAN :
          /\ temp = <<>> => deleted
          /\ got => out_file \in DOMAIN rfs
          /\ ~got => (rm_in /\ rm_out)
          /\ Faults(B(~deleted) + B(~got /\ out_file \in DOMAIN rfs)
                    + B(~rm_in) + B(~rm_out))
          /\ IF got
             THEN /\ temp' = <<File(rfs[out_file], 1, now + 1)>>
                  /\ rfs' = [n \in DOMAIN rfs \ ((IF rm_in THEN {in_file} ELSE {})
                                \cup (IF rm_out THEN {out_file} ELSE {}))
                              |-> rfs[n]]
                  /\ Goto3("replace3")
             ELSE /\ temp' = IF deleted THEN <<>> ELSE temp
                  /\ rfs' = rfs
                  /\ Exit3(1, "download failed")
    /\ now' = now + 1
    /\ UNCHANGED <<cfgvars, v4only, media_info, ssh_enabled, stdout_bound, commands,
                   cur_file, video_cmd, audio_cmd, need_remote, redo_audio,
                   retval, subq, fs, run, envn, paths, calls, orig, ranFor,
                   fatalAt>>

\* lines 397-403
RunEnd3 ==
    /\ variant = "v3" /\ pc = "loop3" /\ idx > Len(paths)
    /\ exitcode' = <<0>>
    /\ pc' = "idle"
    /\ UNCHANGED <<cfgvars, v4only, v3vars, fs, temp, now, run, envn, faults,
                   paths, idx, calls, orig, ranFor, fatalAt, last>>

Next3 ==
    \/ EnvModify \/ EnvAdd
    \/ Scan3 \/ SshSetup3 \/ Begin3 \/ Extract3 \/ Local3 \/ Delete3 \/ Move3
    \/ Utime3 \/ Send3 \/ Exec3 \/ Get3 \/ RunEnd3

Spec3 == Init3 /\ [][Next3]_vars

\* either script
InitAll == Init \/ Init3
NextAll == Next \/ Next3
SpecAll == InitAll /\ [][NextAll]_vars

-----------------------------------------------------------------------------
(* The track loop of media_convert_2 and media_convert_3 on its own *)

\* every list of at most MaxTracks tracks is a result of MediaInfo.parse
InitClassify ==
    /\ variant \in {"v2", "v3"}
    /\ DELETE = TRUE /\ JUST_CHECK = FALSE /\ ssh_configured = FALSE
    /\ fs = [p \in {<<"a", "avi">>} |-> File(Raw(p), 2, 0)]
    /\ rfs = <<>> /\ temp = <<>> /\ db = {}
    /\ now = 0 /\ run = 1 /\ envn = 0 /\ faults = 0
    /\ ssh_enabled = FALSE /\ stdout_bound = FALSE
    /\ commands = <<>> /\ cur_file = <<"a", "avi">>
    /\ video_cmd = Defaults.video_cmd /\ audio_cmd = Defaults.audio_cmd
    /\ need_remote = Defaults.need_remote /\ redo_audio = Defaults.redo_audio
    /\ retval = <<>> /\ subq = <<>>
    /\ media_info \in UNION {[1..n -> Tracks] : n \in 0..MaxTracks}
    /\ pc = "parsed"
    /\ NoLocals
    /\ NoRun

ClassifyInto(c) ==
    /\ video_cmd' = c.video_cmd /\ audio_cmd' = c.audio_cmd
    /\ need_remote' = c.need_remote /\ redo_audio' = c.redo_audio
    /\ pc' = "classified"
    /\ UNCHANGED <<cfgvars, v4only, ssh_enabled, stdout_bound, commands,
                   cur_file, retval, subq, media_info, rfs, fs, temp, now,
                   run, envn, faults, paths, idx, exitcode, calls, orig,
                   ranFor, fatalAt, last>>

\* media_convert_2, lines 198-212
Classify2 ==
    /\ variant = "v2" /\ pc = "parsed"
    /\ ClassifyInto(Classify(Defaults, media_info, TRUE))

\* media_convert_3, lines 270-290
Classify3 ==
    /\ variant = "v3" /\ pc = "parsed"
    /\ ClassifyInto(Classify(Defaults, media_info, FALSE))

NextClassify == Classify2 \/ Classify3

SpecClassify == InitClassify /\ [][NextClassify]_vars

-----------------------------------------------------------------------------
(* Properties of the tracking store and of the two-pass orchestrator *)

\* the file whose iteration has just ended, and its destination
done_path == paths[idx - 1]
done_out == to_target_naming(done_path)

\* the stored record of p is 'ok' and matches / does not match the file at p
OkRecordMatches(p) ==
    /\ isfile(p)
    /\ \E row \in db : /\ row.path = p /\ row.status = "ok"
                       /\ row.size = fs[p].size /\ row.mtime = fs[p].mtime

OkRecordStale(p) ==
    /\ isfile(p)
    /\ \E row \in db : /\ row.path = p /\ row.status = "ok"
                       /\ (row.size # fs[p].size \/ row.mtime # fs[p].mtime)

AtFile == variant = "v4" /\ pc = "loop" /\ idx <= Len(paths)
Ended(how) == variant = "v4" /\ pc = "loop" /\ last = how

\* C1: db_lookup(path, size, mtime) returns the stored record if and only if a
\* record is stored for path, its size equals size, its mtime equals mtime and
\* its status is 'ok'; in every other case it returns absent.
C1_LookupContract ==
    \A p \in Library \cup {row.path : row \in db}, s \in Sizes \cup {0},
       m \in {row.mtime : row \in db} \cup {now + 1} :
        LET hit == {row \in db : /\ row.path = p /\ row.size = s
                                 /\ row.mtime = m /\ row.status = "ok"}
            found == db_lookup(db, p, s, m)
        IN  IF hit = {} THEN found = <<>>
            ELSE found # <<>> /\ found[1] \in hit

C1_Witness ==
    /\ \E row \in db : /\ row.status = "ok"
                       /\ db_lookup(db, row.path, row.size, row.mtime) = <<row>>
                       /\ db_lookup(db, row.path, row.size, row.mtime + 1) = <<>>
    /\ \E row \in db : /\ row.status = "error"
                       /\ db_lookup(db, row.path, row.size, row.mtime) = <<>>

\* C2: a candidate whose stored record is 'ok' with the file's current size and
\* mtime is skipped: its iteration starts no encoder, leaves every file, the
\* temp file and the store as they are, and no encoder is started for a
\* skipped file in that run.
C2_SkipStep ==
    (AtFile /\ OkRecordMatches(in_path)) =>
        /\ fs' = fs /\ temp' = temp /\ db' = db
        /\ ranFor' = ranFor /\ calls' = <<>>
        /\ pc' = "loop" /\ idx' = idx + 1 /\ skipped' = skipped + 1

C3_StaleStep ==
    (AtFile /\ OkRecordStale(in_path)) =>
        /\ skipped' = skipped /\ in_path \notin skippedNow'
        /\ ~JUST_CHECK => (pc' = "pass1" /\ idx' = idx)

C3_ChangeInvalidation == [][C3_StaleStep]_vars

C3_Witness ==
    /\ variant = "v4" /\ pc = "moveorig" /\ OkRecordStale(in_path)
    /\ Len(calls) = 2

\* C4: after a successful two-pass encode and replacement the original path no
\* longer holds the original content, the backup is gone when DELETE is set and
\* the removal succeeded, the destination holds the encoder's output, and the
\* 'ok' record written is the destination's, with the destination's size and
\* mtime; the step that writes it changes no other path's record.
C4_AfterSuccess ==
    Ended("processed") =>
        /\ isfile(done_out)
        /\ fs[done_out].content = Encoded(orig[1].content)
        /\ isfile(done_path) => fs[done_path].content # orig[1].content
        /\ done_path # done_out => ~isfile(done_path)
        /\ (DELETE /\ removed) => ~isfile(backup)
        /\ ~DELETE => (isfile(backup) /\ fs[backup] = orig[1])
        /\ fetchone(db, done_out) # <<>>
        /\ LET row == fetchone(db, done_out)[1]
           IN  /\ row.status = "ok"
               /\ row.size = fs[done_out].size
               /\ row.mtime = fs[done_out].mtime
        /\ done_path # done_out =>
              \A row \in db : row.path = done_path => row.status # "ok"

C4_RecordStep ==
    (variant = "v4" /\ pc = "record") =>
        /\ \A row \in db' : row.path # out_path => row \in db
        /\ \A row \in db : row.path # out_path => row \in db'

C4_Replacement == [](C4_AfterSuccess) /\ [][C4_RecordStep]_vars

C4_Witness ==
    /\ Ended("processed") /\ DELETE /\ removed
    /\ done_path = <<"a", "avi">> /\ Len(calls) = 3

\* C5: while a file is being replaced, the library holds an intact copy of
\* the original content or the encoder's output for it at the destination.
Replacing ==
    pc \in {"moveorig", "moveout", "delete", "record", "replace3", "move3", "utime3"}

C5_NoDataLoss ==
    Replacing =>
        \/ \E q \in DOMAIN fs : fs[q].content = orig[1].content
        \/ \E q \in DOMAIN fs : /\ q[Len(q)] \in {EXT3, EXT4}
                                 /\ fs[q].content = Encoded(orig[1].content)

\* C6: for a file in one run the software-tonemap pass 1 is run at most once,
\* and exactly once when hardware pass 1 exited non-zero with the diagnostic in
\* its output; no pass 1 follows it.
SwCalls == {i \in 1..Len(calls) : calls[i].pass = "pass1" /\ calls[i].sw}

C6_FallbackOnce ==
    (variant = "v4" /\ calls # <<>>) =>
        /\ Cardinality(SwCalls) <= 1
        /\ calls[1].pass = "pass1" /\ ~calls[1].sw
        /\ \A i \in 2..Len(calls) : calls[i].pass = "pass1" => (i = 2 /\ calls[i].sw)
        /\ pc # "pass1sw" =>
              (Cardinality(SwCalls) = 1 <=> (calls[1].rc # 0 /\ calls[1].diag))

C6_Witness ==
    /\ variant = "v4" /\ pc = "pass1failed"
    /\ Cardinality(SwCalls) = 1 /\ Len(calls) = 2

\* C7: after a hardware pass 1 that failed without the diagnostic, and after a
\* pass 2 that failed, no encoder is run again for the file: the iteration
\* ends with an 'error' record; a second pass 1 only follows the diagnostic.
ErrorRecorded(p) ==
    /\ fetchone(db, p) # <<>>
    /\ fetchone(db, p)[1].status = "error"

C7_OnlyRetry ==
    (variant = "v4" /\ calls # <<>> /\ pc # "idle") =>
        /\ (calls[1].rc # 0 /\ ~calls[1].diag) =>
              /\ Len(calls) = 1
              /\ \/ pc = "pass1failed"
                 \/ Ended("pass1 failed") /\ ErrorRecorded(done_path)
        /\ \A i \in 1..Len(calls) : (calls[i].pass = "pass2" /\ calls[i].rc # 0) =>
              /\ i = Len(calls)
              /\ Cardinality({j \in 1..Len(calls) : calls[j].pass = "pass2"}) = 1
              /\ \/ pc = "pass2failed"
                 \/ Ended("pass2 failed") /\ ErrorRecorded(done_path)
        /\ Len(calls) <= 3

C7_Witness ==
    /\ Ended("pass2 failed") /\ calls[1].rc = 0 /\ Len(calls) = 2
    /\ idx <= Len(paths)

\* C8: an encoder exit code of -1, like 1, is a per-file failure in both
\* scripts: the run goes on with the next file.  media_convert_3 halts the
\* run, with exit code 1 and no further file taken up, exactly when a status
\* is below -1 or above 10.
LastCall == calls[Len(calls)]

C8_Threshold ==
    /\ (variant = "v3" /\ calls # <<>> /\ LastCall.pass \in {"encode", "remote"}
          /\ LastCall.rc \in ({-1} \cup (1..10))) =>
           /\ last = "failed" /\ fatalAt = 0
           /\ \/ /\ pc = "loop3" /\ exitcode = <<>>
                 /\ idx <= Len(paths) => ENABLED Begin3
              \/ pc = "idle" /\ exitcode = <<0>> /\ idx > Len(paths)
    /\ (variant = "v3" /\ calls # <<>> /\ (LastCall.rc < -1 \/ LastCall.rc > 10)) =>
           /\ pc = "idle" /\ exitcode = <<1>> /\ last = "fatal"
           /\ idx = fatalAt /\ idx <= Len(paths)
    /\ (variant = "v4" /\ calls # <<>> /\ LastCall.rc \in {-1, 1}) =>
           \/ pc \in {"pass1sw", "pass1failed", "pass2failed"}
           \/ /\ pc = "loop" /\ exitcode = <<>>
              /\ last \in {"pass1 failed", "pass2 failed"}
              /\ idx <= Len(paths) => ENABLED IterBegin
           \/ pc = "idle" /\ exitcode = <<0>> /\ idx > Len(paths)

C8_Witness ==
    /\ variant = "v3" /\ pc = "loop3" /\ last = "failed"
    /\ calls # <<>> /\ LastCall.rc = -1 /\ LastCall.pass = "encode"
    /\ idx <= Len(paths)

\* C8 as stated: after an encoder exit code of -1 no further file is taken up.
C8_MinusOneFatal ==
    (calls # <<>> /\ LastCall.rc = -1) =>
        ~(pc \in {"loop", "loop3"} /\ idx <= Len(paths))

\* C9: once an encoder has returned a status outside the range -1..10 for a
\* file, the run is aborted: no iteration is entered for a later file.
C9_FatalAborts ==
    fatalAt # 0 =>
        \/ idx = fatalAt
        \/ idx > fatalAt /\ pc \in {"loop", "loop3", "idle"}

\* C10: when pass 1 (after any fallback) or pass 2 ends with a non-zero status
\* inside the range -1..10, an 'error' record whose note holds that status is
\* stored for the source path with the signature read at the start, the source
\* file is as it was, and the run goes on with the next candidate.
FailureRecorded(kind, code) ==
    /\ fetchone(db, done_path) # <<>>
    /\ LET row == fetchone(db, done_path)[1]
       IN  /\ row.status = "error"
           /\ row.note = Note(kind, code)
           /\ row.size = sig[1] /\ row.mtime = sig[2]
    /\ isfile(done_path) /\ fs[done_path] = orig[1]
    /\ exitcode = <<>>
    /\ idx <= Len(paths) => ENABLED IterBegin

C10_TransientFailure ==
    /\ (Ended("pass1 failed") /\ ~IsFatal(r1)) =>
          (r1 # 0 /\ FailureRecorded("pass1 exit", r1))
    /\ (Ended("pass2 failed") /\ ~IsFatal(r2)) =>
          (r2 # 0 /\ FailureRecorded("pass2 exit", r2))

C10_Witness ==
    /\ Ended("pass2 failed") /\ r2 = 1 /\ Len(calls) = 3
    /\ idx <= Len(paths)

-----------------------------------------------------------------------------
(* Properties of error containment, the store and the temp file *)

\* C11: an exception raised while a file is being replaced is contained at the
\* file boundary: it does not end the run before the later candidates.
C11_Contained ==
    ~(/\ pc = "idle" /\ exitcode = <<1>> /\ last = "crashed"
      /\ calls # <<>> /\ LastCall.pass \in {"encode", "remote"}
      /\ LastCall.rc = 0)

\* C12: an iteration that did not skip its file ends with a record in the
\* store: 'ok' for the destination after a success, 'error' for the source
\* after any failure, a failed move of the replacement step included.
C12_RecordWritten ==
    (variant = "v4" /\ pc = "loop" /\ last \notin {"none", "skipped"}) =>
        IF last = "processed"
        THEN \E row \in db : row.path = done_out /\ row.status = "ok"
        ELSE \E row \in db : row.path = done_path /\ row.status = "error"

\* C13: a step of the orchestrator never leaves an 'ok' record that matches
\* the file at its path unless that file is the whole output of a successful
\* pass 2; while nothing outside the orchestrator has changed the library,
\* every 'ok' record matching its file is one of an encoded file.
Compliant(f) == f.content.enc >= 1 /\ f.content.whole

C13_Step ==
    ~(pc = "idle" /\ pc' = "idle") =>
        \A p \in DOMAIN fs' :
            (/\ \E row \in db' : /\ row.path = p /\ row.status = "ok"
                                /\ row.size = fs'[p].size
                                /\ row.mtime = fs'[p].mtime
             /\ \/ p \notin DOMAIN fs
                \/ fs'[p] # fs[p]
                \/ fetchone(db', p) # fetchone(db, p))
            => Compliant(fs'[p])

C13_StoreInvariant ==
    /\ [][C13_Step]_vars
    /\ [](envn = 0 => \A p \in DOMAIN fs : OkRecordMatches(p) => Compliant(fs[p]))

C13_Witness ==
    /\ Ended("processed") /\ envn = 1 /\ done_path = <<"a", "mkv">>
    /\ OkRecordMatches(done_out) /\ fs[done_out].content.enc = 2

\* C14: the store holds at most one row per path; an upsert leaves exactly
\* one row for its path, carrying the size, mtime, status and note given,
\* and every other row as it was; a second upsert for the path replaces the
\* first; db_lookup gives the same answer whatever last_checked holds.
Restamp(conn, t) == {[row EXCEPT !.last_checked = t] : row \in conn}

RowsOf(conn, p) == {row \in conn : row.path = p}

C14_UniqueKey ==
    /\ \A p \in {row.path : row \in db} : Cardinality(RowsOf(db, p)) = 1
    /\ \A p \in Library \cup {row.path : row \in db}, s \in Sizes,
          st \in {"ok", "error"} :
          LET n1 == Note("first", 1)
              n2 == Note("second", 2)
              d1 == db_upsert(db, p, s, now, st, n1, now + 1)
              d2 == db_upsert(d1, p, 3 - s, now + 1, "error", n2, now + 2)
          IN  /\ RowsOf(d1, p) = {Row(p, s, now, st, n1, now + 1)}
              /\ RowsOf(d2, p) = {Row(p, 3 - s, now + 1, "error", n2, now + 2)}
              /\ \A q \in {row.path : row \in db} \ {p} :
                    RowsOf(d1, q) = RowsOf(db, q) /\ RowsOf(d2, q) = RowsOf(db, q)
              /\ (db_lookup(d1, p, s, now) # <<>>) <=> (st = "ok")
              /\ (db_lookup(Restamp(d1, 0), p, s, now) # <<>>) <=> (st = "ok")
    /\ \A row \in db :
          (db_lookup(db, row.path, row.size, row.mtime) = <<>>)
              <=> (db_lookup(Restamp(db, now + 3), row.path, row.size, row.mtime) = <<>>)

C14_Witness ==
    \E row \in db :
        /\ row.path = <<"a", "mkv">> /\ row.status = "error"
        /\ isfile(row.path) /\ fs[row.path].content.enc >= 1
        /\ RowsOf(db, row.path) = {row}

\* C15: when pass 1 is about to be started for a file, no temp output file
\* left by an earlier attempt exists.
C15_TempHygiene ==
    (variant = "v4" /\ pc = "pass1") => temp = <<>>

\* C20: a failure of the connection setup disables the remote path and the
\* run goes on locally: the setup never ends the run, and no remote step is
\* taken once ssh_enabled is off.
C20_RemoteFallback ==
    /\ ~(/\ variant = "v3" /\ pc = "idle" /\ exitcode = <<1>>
         /\ last = "crashed" /\ cur_file = <<>>)
    /\ (variant = "v3" /\ ~ssh_enabled) => pc \notin {"send3", "exec3", "get3"}

-----------------------------------------------------------------------------
(* Properties of the track loop *)

Classified == pc = "classified"

\* the limit on the bit rate in the script that runs
BitrateLimit == IF variant = "v2" THEN MAX_BITRATE2 ELSE MAX_BITRATE

OffPolicyVideo(t) ==
    /\ t.track_type = "Video"
    /\ \/ t.bit_rate = 0
       \/ t.bit_rate > BitrateLimit
       \/ t.width > MAX_WIDTH
       \/ t.height > MAX_HEIGHT
       \/ t.format # "AVC"
       \/ (t.format = "AVC" /\ t.format_profile # "Main@L4")

OffPolicyAudio(t) ==
    /\ t.track_type = "Audio"
    /\ (t.channel_s > MAX_CHANNELS \/ t.format # "AAC")

\* C16: after the track loop the video action is 'encode' exactly when some
\* video track of the list has no bit rate, a bit rate, width or height above
\* the limit, another codec, or the codec with another profile, wherever the
\* track stands in the list; a track without a bit rate alone is enough.
C16_VideoAction ==
    Classified =>
        /\ video_cmd \in {"copy", "encode"}
        /\ (video_cmd = "encode") <=>
               \E i \in DOMAIN media_info : OffPolicyVideo(media_info[i])
        /\ (\E i \in DOMAIN media_info :
               /\ media_info[i].track_type = "Video"
               /\ media_info[i].bit_rate = 0) => video_cmd = "encode"
        /\ variant = "v3" => (need_remote <=> video_cmd = "encode")

C16_Witness ==
    /\ Classified /\ video_cmd = "encode" /\ Len(media_info) = 3
    /\ media_info[1] = VideoNoRate /\ media_info[3] = VideoLow

\* C17: once the tracks of a file are inspected as 6 Mbps AVC Main
\* 1920x1080 with AAC stereo, both actions are 'copy' and no encoder is
\* started for the file.
C17_CompliantCopied ==
    (variant = "v3" /\ media_info = <<VideoMain, AudioStereo>>) =>
        /\ video_cmd = "copy" /\ audio_cmd = "copy"
        /\ \A i \in DOMAIN calls : calls[i].pass \notin {"encode", "remote"}

\* C18: when inspection reports no video track and no audio track, both
\* actions are 'encode' after the track loop.
C18_UnparseableEncoded ==
    (/\ Classified
     /\ \A i \in DOMAIN media_info :
           media_info[i].track_type \notin {"Video", "Audio"})
    => (video_cmd = "encode" /\ audio_cmd = "encode")

\* C19: after the track loop the audio action is 'encode' exactly when some
\* audio track has more channels than the limit or another codec; the video
\* tracks of the list have no part in it.
C19_AudioAction ==
    Classified =>
        LET IsAudio(t) == t.track_type = "Audio"
            audio == SelectSeq(media_info, IsAudio)
        IN  /\ audio_cmd \in {"copy", "encode"}
            /\ (audio_cmd = "encode") <=>
                   \E i \in DOMAIN media_info : OffPolicyAudio(media_info[i])
            /\ audio_cmd = Classify(Defaults, audio, variant = "v2").audio_cmd
            /\ variant = "v3" => (redo_audio <=> audio_cmd = "encode")

C19_Witness ==
    /\ Classified /\ audio_cmd = "encode" /\ video_cmd = "copy"
    /\ Len(media_info) = 2
    /\ media_info[1] = VideoLow /\ media_info[2] = AudioAac6

-----------------------------------------------------------------------------
(* Properties of the exit code, cancellation and the order of the passes *)

\* C21: a process that has exited, other than by an exception nothing
\* catches, has exit code 0 unless an encoder returned a status outside the
\* expected range in this run.
C21_ExitCode ==
    (pc = "idle" /\ exitcode \notin {<<>>, <<0>>} /\ last # "crashed")
        => fatalAt # 0

\* C22: when a signal has ended the run, no file is left in flight: the
\* file the loop stands at has had no encoder started for it.
C22_PerFileCancel ==
    (variant = "v4" /\ pc = "idle" /\ last = "signal")
        => ~(idx <= Len(paths) /\ paths[idx] \in ranFor)

\* C23: every pass 2 of a file directly follows a pass 1 of that file that
\* exited 0; the replacement step is entered, and a file is moved or deleted
\* or an 'ok' record written, only when the last encoder call of the file is
\* a pass 2 that exited 0.
Pass2Done ==
    calls # <<>> /\ LastCall.pass = "pass2" /\ LastCall.rc = 0 /\ r2 = 0

C23_Order ==
    variant = "v4" =>
        /\ \A i \in DOMAIN calls :
              calls[i].pass = "pass2" =>
                  i > 1 /\ calls[i - 1].pass = "pass1" /\ calls[i - 1].rc = 0
        /\ pc = "pass2" =>
              calls # <<>> /\ LastCall.pass = "pass1" /\ LastCall.rc = 0 /\ r1 = 0
        /\ pc \in {"moveorig", "moveout", "delete", "record"} => Pass2Done

C23_ReplaceStep ==
    (/\ variant = "v4" /\ pc # "idle"
     /\ \/ fs' # fs
        \/ \E row \in db' \ db : row.status = "ok")
    => Pass2Done

C23_PassOrdering == []C23_Order /\ [][C23_ReplaceStep]_vars

C23_Witness ==
    /\ variant = "v4" /\ pc = "record" /\ Len(calls) = 3
    /\ calls[1].rc # 0 /\ calls[2].sw /\ calls[2].rc = 0

-----------------------------------------------------------------------------
(* Properties of the command builder *)

Built == pc = "built"

\* the chain stages that stand before the scale stage
BeforeScale(vf) ==
    LET k == CHOOSE i \in DOMAIN vf : vf[i] = scale
    IN  SubSeq(vf, 1, k - 1)

\* C24: the chain of both commands is the tonemap stage, present exactly for
\* an HDR source (the hardware one without the flag, the software pipeline
\* with it), then scale, then hwmap; pass 1 and pass 2 carry the same chain;
\* pass 2 copies the audio and the subtitle streams.
C24_FilterChain ==
    Built =>
        /\ p1.vf = p2.vf
        /\ Cardinality({i \in DOMAIN p2.vf : p2.vf[i] = scale}) = 1
        /\ BeforeScale(p2.vf) =
              IF is_hdr(probe) THEN (IF sw THEN tm_sw ELSE tm_hw) ELSE <<>>
        /\ p2.vf = BeforeScale(p2.vf) \o <<scale, hwmap>>
        /\ p2.audio = "copy" /\ p2.subs = "copy"
        /\ p1.pass = 1 /\ p2.pass = 2
        /\ p1.input = in_path /\ p2.input = in_path /\ p2.output = temp_file

C24_Witness ==
    /\ Built /\ sw /\ is_hdr(probe)
    /\ p1.vf[1] = "hwdownload" /\ p2.vf[Len(p2.vf) - 1] = scale

\* C25: is_hdr holds exactly when ffprobe names smpte2084 or arib-std-b67 as
\* the color transfer or bt2020 as the color primaries; with nothing printed
\* for both entries the file is not HDR.
HdrExpected ==
    \/ probe.color_transfer \in {"smpte2084\n", "arib-std-b67\n",
                                 "smpte2084\nsmpte2084\n"}
    \/ probe.color_primaries \in {"bt2020\n", "bt2020\nbt2020\n"}

C25_HdrDetection ==
    /\ variant = "v4" => (is_hdr(probe) <=> HdrExpected)
    /\ ~is_hdr(NoProbe)
    /\ Built => ((p1.vf # <<scale, hwmap>>) <=> HdrExpected)

C25_Witness ==
    /\ Built /\ probe = Probe("bt709\n", "bt2020\n") /\ Len(p1.vf) = 3

\* C28: once pass 1 of a file has run, the commands in hand are the pair one
\* call of the builder returned, with the software tonemap flag exactly when
\* the fallback was taken; the pass 2 that runs is of that pair.
FallbackTaken == calls # <<>> /\ calls[1].rc # 0 /\ calls[1].diag

C28_FallbackPair ==
    (variant = "v4" /\ calls # <<>> /\ pc \notin {"loop", "idle", "pass1"}) =>
        /\ sw = FallbackTaken
        /\ p1 = build_two_pass_cmds(probe, in_path, temp_file, FallbackTaken)[1]
        /\ p2 = build_two_pass_cmds(probe, in_path, temp_file, FallbackTaken)[2]
        /\ \A i \in DOMAIN calls :
              calls[i].pass = "pass2" => calls[i].sw = FallbackTaken

C28_Witness ==
    /\ variant = "v4" /\ pc = "moveorig" /\ Len(calls) = 3 /\ FallbackTaken
    /\ calls[3].pass = "pass2" /\ calls[3].sw
    /\ probe = HdrProbe /\ p2.vf[1] = "hwdownload"

-----------------------------------------------------------------------------
(* Properties of the names chosen, check-only mode and the replacement *)

\* p followed by k times ".old"
RECURSIVE OldName(_, _)
OldName(p, k) == IF k = 0 THEN p ELSE Append(OldName(p, k - 1), "old")

\* the k-th subtitle name of file: subname, subname1, subname2, ...
SubName(file, subname, k) ==
    Append([file EXCEPT ![Len(file)] =
               IF k = 0 THEN subname ELSE subname \o ToString(k)], "srt")

MaxSuffix == 4

\* C26: the step that moves the source aside takes the first of path.old,
\* path.old.old, ... that is not a file, and the step that extracts a
\* subtitle writes the first of name, name1, name2, ... that is not a file;
\* neither target exists before the step.
C26_Step ==
    /\ (variant = "v4" /\ pc = "moveorig") =>
          /\ backup' \notin DOMAIN fs
          /\ \E k \in 1..MaxSuffix :
                /\ backup' = OldName(in_path, k)
                /\ \A j \in 1..(k - 1) : OldName(in_path, j) \in DOMAIN fs
    /\ (variant = "v3" /\ pc = "sub3") =>
          \A n \in DOMAIN fs' \ DOMAIN fs :
             \E k \in 0..MaxSuffix :
                /\ n = SubName(cur_file, Head(subq), k)
                /\ \A j \in 0..(k - 1) :
                      SubName(cur_file, Head(subq), j) \in DOMAIN fs
    /\ (variant = "v3" /\ pc = "sub3") => \A n \in DOMAIN fs : fs'[n] = fs[n]

C26_CollisionFree == [][C26_Step]_vars

C26_Witness ==
    /\ variant = "v3"
    /\ isfile(<<"a", "en", "srt">>) /\ isfile(<<"a", "en1", "srt">>)

C26_WitnessBackup ==
    /\ variant = "v4"
    /\ isfile(<<"a", "mkv", "old">>) /\ isfile(<<"a", "mkv", "old", "old">>)

\* C27: with JUST_CHECK set no ffmpeg process is started for any candidate
\* and no file is written.
C27_CheckOnly ==
    JUST_CHECK =>
        /\ calls = <<>>
        /\ ranFor = {}
        /\ temp = <<>>
        /\ \A p \in DOMAIN fs : p[Len(p)] # "srt"

\* C29: a step of the replacement leaves every file other than the source
\* in hand and its backup where it is and as it is.
C29_Step ==
    (variant = "v4" /\ pc \in {"moveorig", "moveout", "delete"}) =>
        \A p \in DOMAIN fs \ {in_path, backup} :
            p \in DOMAIN fs' /\ fs'[p] = fs[p]

C29_OthersKept == [][C29_Step]_vars

\* C30: a step that deletes the source or puts an output in its place is
\* taken only when an encoder call made for this file, in this iteration,
\* returned 0.
C30_Step ==
    (variant = "v3" /\ pc \in {"replace3", "move3"} /\ fs' # fs) =>
        \E i \in DOMAIN calls :
            calls[i].pass \in {"encode", "remote"} /\ calls[i].rc = 0

C30_OwnStatus == [][C30_Step]_vars

\* C31: while the loop stands between two files, and when the run has
\* returned, every candidate taken up so far is counted in exactly one of
\* processed, skipped and failed.
C31_Conservation ==
    /\ (variant = "v4" /\ pc = "loop") =>
          processed + skipped + failed = idx - 1
    /\ (variant = "v4" /\ pc = "idle" /\ run > 0 /\ exitcode = <<0>>
        /\ last # "signal") =>
          processed + skipped + failed = Len(paths)

====
